---------------------------- MODULE Spec2Model ----------------------------
(***************************************************************************)
(* Model of Car1LL/SubtitleGenerator: the command line (project.py), the   *)
(* subtitle pipeline (editor/editor.py) and the loading-bar decorator      *)
(* (editor/helper.py).                                                     *)
(*                                                                         *)
(* Representation of data                                                  *)
(*  - a time is an integer number of 1/Resolution milliseconds, i.e. the   *)
(*    value of the float product time * 1000 is tq / Resolution;           *)
(*  - a character is its Unicode script class; a string is a sequence of   *)
(*    classes;                                                             *)
(*  - a segment text is a sequence of words, each word a record            *)
(*    [cls, len, hy, gap]: script class of its letters, length in          *)
(*    characters, hy > 0 when the word is hyphenated after hy characters   *)
(*    (hy includes the hyphen), gap = number of blanks before it;          *)
(*  - a path derived from the requested output path is the sequence of     *)
(*    " (n)" counters appended to its name: <<>> is "out.mp4", <<1>> is    *)
(*    "out (1).mp4", <<1, 2>> is "out (1) (2).mp4".                        *)
(***************************************************************************)
EXTENDS Integers, Sequences, FiniteSets, TLC

VARIABLES
    time, srt,              \* convert_time_to_srt_format: argument, result
    text, script,           \* detect_script: argument, result
    wtext, width, wrapped,  \* textwrap.fill in generate_srt: text, width, lines
    upath, ufs, unique,     \* get_unique_filename: argument, existing files, result
    returned,               \* the pure function under check has returned
    argv,                   \* the command line and whether the input exists
    args,                   \* get_args' result handed to start_menu
    error,                  \* the exception that ended the program, or None
    pc,                     \* position of the main thread
    language,               \* the language string being entered at the menu
    prompts,                \* language strings rejected at this prompt
    video,                  \* the SubtitleGenerator instance
    runs,                   \* SubtitleGenerator constructions so far
    fs,                     \* existing paths derived from the --output path
    tempDir,                \* ./temp/ exists
    tempFiles,              \* names of the entries of ./temp/
    subsFile,               \* lines of ./temp/subs.srt
    segments,               \* generate_srt: segments
    gwidth,                 \* generate_srt: width
    gi,                     \* generate_srt: position of the for loop
    font,                   \* apply_subtitles: font, font_size, stroke_width
    deco,                   \* the decorator's function name, style_name, length
    outcome,                \* how the decorated function ended
    stop_event,             \* wrap: stop_event is set
    tpc,                    \* position of the _animate thread
    idx,                    \* _animate: idx
    doneLines,              \* "... Done." lines _animate wrote for this call
    log,                    \* steps started and ended in the current run
    before                  \* ./temp/subs.srt as it was when the run started,
                            \* and the output paths of the runs completed by then

pureVars == <<time, srt, text, script, wtext, width, wrapped, upath, ufs, unique,
              returned>>

progVars == <<argv, args, error, pc, language, prompts, video, runs, fs, tempDir,
              tempFiles, subsFile, segments, gwidth, gi, font, deco, outcome,
              stop_event, tpc, idx, doneLines, log, before>>

vars == <<pureVars, progVars>>

None == "None"

\* Bounds of the model.
Resolution == 4
MaxSpread == 6
MaxLen == 3
MaxWords == 3
MaxCounter == 3
MaxSegments == 2
MaxRuns == 2
MaxPrompts == 2
MaxFrames == 1

Last(s) == s[Len(s)]

RECURSIVE SumLen(_)
SumLen(s) == IF s = <<>> THEN 0 ELSE Head(s).len + SumLen(Tail(s))

RECURSIVE Flatten(_)
Flatten(ss) == IF ss = <<>> THEN <<>> ELSE Head(ss) \o Flatten(Tail(ss))

(***************************************************************************)
(* convert_time_to_srt_format                                              *)
(***************************************************************************)

\* Python 3 round(x) on the float x = tq / Resolution: to nearest, ties to even.
PyRound(tq) ==
    LET f == tq \div Resolution
        r == tq % Resolution
    IN  IF 2 * r < Resolution THEN f
        ELSE IF 2 * r > Resolution THEN f + 1
        ELSE IF f % 2 = 0 THEN f ELSE f + 1

RECURSIVE Digits(_)
Digits(n) == IF n < 10 THEN <<n>> ELSE Append(Digits(n \div 10), n % 10)

\* The format specs {x:02} and {x:03}: zero padding to at least w digits.
RECURSIVE Pad(_, _)
Pad(ds, w) == IF Len(ds) >= w THEN ds ELSE Pad(<<0>> \o ds, w)

SrtString(hours, minutes, seconds, milliseconds) ==
    Pad(Digits(hours), 2) \o <<":">> \o Pad(Digits(minutes), 2) \o <<":">>
        \o Pad(Digits(seconds), 2) \o <<",">> \o Pad(Digits(milliseconds), 3)

convert_time_to_srt_format(tq) ==
    LET total_milliseconds == PyRound(tq)
        seconds0 == total_milliseconds \div 1000
        milliseconds == total_milliseconds % 1000
        minutes0 == seconds0 \div 60
        seconds == seconds0 % 60
        hours == minutes0 \div 60
        minutes == minutes0 % 60
    IN  SrtString(hours, minutes, seconds, milliseconds)

\* Times around 0 s, 1 s, 5.25 s, 1 min and 1 h (3599.9995 s lies in the last).
TimeInputs ==
    { ms * Resolution + d : ms \in {0, 1000, 5250, 60000, 3600000},
                            d \in (0 - MaxSpread) .. MaxSpread } \cap Nat

(***************************************************************************)
(* detect_script                                                           *)
(***************************************************************************)
Classes == {"Arabic", "Asian", "Latin", "Cyrillic", "Common", "Space",
            "Inherited", "Other"}

\* Whitespace is of script Common; "Common" stands for punctuation and digits.
Shared == {"Common", "Space", "Inherited"}

RECURSIVE LStrip(_)
LStrip(s) == IF s # <<>> /\ Head(s) = "Space" THEN LStrip(Tail(s)) ELSE s

RECURSIVE RStrip(_)
RStrip(s) ==
    IF s # <<>> /\ Last(s) = "Space" THEN RStrip(SubSeq(s, 1, Len(s) - 1)) ELSE s

Strip(s) == RStrip(LStrip(s))

Chars(s) == { s[i] : i \in 1 .. Len(s) }

\* regex.fullmatch(r"[...]+", s) and regex.search(r"[...]", s)
FullMatch(allowed, s) == s # <<>> /\ Chars(s) \subseteq allowed
Search(wanted, s) == Chars(s) \cap wanted # {}

detect_script_NoSearchMutant(s) ==
    LET t == Strip(s)
    IN  IF t = <<>> THEN None
        ELSE IF FullMatch({"Arabic"} \cup Shared, t) THEN "arabic"
        ELSE IF FullMatch({"Asian"} \cup Shared, t) THEN "asian"
        ELSE IF FullMatch({"Latin", "Cyrillic"} \cup Shared, t) THEN "latin-cyrillic"
        ELSE None

detect_script(s) ==
    LET t == Strip(s)
    IN  IF t = <<>> THEN None
        ELSE IF FullMatch({"Arabic"} \cup Shared, t) /\ Search({"Arabic"}, t)
            THEN "arabic"
        ELSE IF FullMatch({"Asian"} \cup Shared, t) /\ Search({"Asian"}, t)
            THEN "asian"
        ELSE IF FullMatch({"Latin", "Cyrillic"} \cup Shared, t)
                /\ Search({"Latin", "Cyrillic"}, t)
            THEN "latin-cyrillic"
        ELSE None

Strings == UNION { [1 .. n -> Classes] : n \in 0 .. MaxLen }


(***************************************************************************)
(* textwrap.fill(text.strip(), width=width) as generate_srt calls it: the  *)
(* library defaults break_long_words, break_on_hyphens, drop_whitespace    *)
(* are all in force.  A line is a sequence of items [w, off, len]: len     *)
(* characters of word number w starting at offset off; w = 0 is a run of   *)
(* len blanks.                                                             *)
(***************************************************************************)
Blank(n) == [w |-> 0, off |-> 0, len |-> n]

\* chunk.strip() == '' holds of a run of blanks and of the empty string
IsBlank(c) == c.w = 0 \/ c.len = 0

Pieces(t, i) ==
    IF t[i].hy = 0 THEN << [w |-> i, off |-> 0, len |-> t[i].len] >>
    ELSE << [w |-> i, off |-> 0, len |-> t[i].hy],
            [w |-> i, off |-> t[i].hy, len |-> t[i].len - t[i].hy] >>

\* text.strip() followed by TextWrapper._split: the blanks before the first
\* word are stripped, every other gap is one chunk.
RECURSIVE ChunksFrom(_, _)
ChunksFrom(t, i) ==
    IF i > Len(t) THEN <<>>
    ELSE (IF i > 1 THEN << Blank(t[i].gap) >> ELSE <<>>) \o Pieces(t, i)
            \o ChunksFrom(t, i + 1)

Chunks(t) == ChunksFrom(t, 1)

\* while chunks: if cur_len + len(chunks[-1]) <= width: take it, else: break
RECURSIVE TakeFit(_, _, _)
TakeFit(chunks, cur, w) ==
    IF chunks # <<>> /\ SumLen(cur) + Head(chunks).len <= w
    THEN TakeFit(Tail(chunks), Append(cur, Head(chunks)), w)
    ELSE [line |-> cur, rest |-> chunks]

\* Mutant: break_long_words=False, a long word goes on a line of its own.
HandleLongWordKeepMutant(st, w) ==
    IF st.rest # <<>> /\ Head(st.rest).len > w /\ st.line = <<>>
    THEN [line |-> << Head(st.rest) >>, rest |-> Tail(st.rest)]
    ELSE st

\* if chunks and len(chunks[-1]) > width: self._handle_long_word(...)
HandleLongWord(st, w) ==
    IF st.rest # <<>> /\ Head(st.rest).len > w
    THEN LET c == Head(st.rest)
             space_left == w - SumLen(st.line)
         IN  [line |-> Append(st.line, [c EXCEPT !.len = space_left]),
              rest |-> << [c EXCEPT !.off = c.off + space_left,
                                    !.len = c.len - space_left] >>
                       \o Tail(st.rest)]
    ELSE st

\* if drop_whitespace and cur_line and cur_line[-1].strip() == '': del cur_line[-1]
DropTrailing(line) ==
    IF line # <<>> /\ IsBlank(Last(line)) THEN SubSeq(line, 1, Len(line) - 1)
    ELSE line

RECURSIVE WrapChunks(_, _, _)
WrapChunks(chunks, w, lines) ==
    IF chunks = <<>> THEN lines
    ELSE LET c1 == IF lines # <<>> /\ IsBlank(Head(chunks)) THEN Tail(chunks)
                   ELSE chunks
             st == HandleLongWord(TakeFit(c1, <<>>, w), w)
             line == DropTrailing(st.line)
         IN  WrapChunks(st.rest, w,
                        IF line # <<>> THEN Append(lines, line) ELSE lines)

\* The lines that textwrap.fill joins with "\n".
textwrap_fill(t, w) == WrapChunks(Chunks(t), w, <<>>)

Widths == {65, 22, 30}

WordShapes == { [len |-> 1, hy |-> 0], [len |-> 10, hy |-> 0],
                [len |-> 12, hy |-> 6], [len |-> 22, hy |-> 0],
                [len |-> 31, hy |-> 0], [len |-> 70, hy |-> 0] }

WrapWords == { [cls |-> "Latin", len |-> s.len, hy |-> s.hy, gap |-> g] :
               s \in WordShapes, g \in {1, 2} }

WrapTexts == UNION { [1 .. n -> WrapWords] : n \in 0 .. MaxWords }

(***************************************************************************)
(* get_unique_filename against the set fs of existing paths                *)
(***************************************************************************)
\* new_path = os.path.join(directory, f"{name} ({counter}){ext}")
NewPath(path, counter) == Append(path, counter)

RECURSIVE Probe(_, _, _)
Probe(path, existing, counter) ==
    IF NewPath(path, counter) \notin existing THEN NewPath(path, counter)
    ELSE Probe(path, existing, counter + 1)

get_unique_filename_FirstMutant(path, existing) ==
    IF path \notin existing THEN path ELSE NewPath(path, 1)

get_unique_filename(path, existing) ==
    IF path \notin existing THEN path ELSE Probe(path, existing, 1)

\* "out.mp4", "out (n).mp4" and "out (1) (n).mp4"
UniquePaths ==
    {<<>>} \cup { <<n>> : n \in 1 .. MaxCounter }
           \cup { <<1, n>> : n \in 1 .. MaxCounter }

(***************************************************************************)
(* Specifications of the pure functions: Init draws the argument, the      *)
(* action applies the function.                                            *)
(***************************************************************************)
TimeIdle == time = 0 /\ srt = <<>>
ScriptIdle == text = <<>> /\ script = None
WrapIdle == wtext = <<>> /\ width = 0 /\ wrapped = <<>>
UniqueIdle == upath = <<>> /\ ufs = {} /\ unique = <<>>
PureIdle == TimeIdle /\ ScriptIdle /\ WrapIdle /\ UniqueIdle /\ returned = FALSE

NoArgv == [input |-> None, output |-> None, subs |-> None, exists |-> FALSE]
NoVideo == [input_path |-> None, output_path |-> <<>>, subtitle_model |-> None,
            set_language |-> None]
NoFont == [font |-> None, font_size |-> 0, stroke_width |-> 0]
NoDeco == [name |-> None, style_name |-> None, length |-> 0]

\* The part of the program state that no step has touched yet.
Fresh ==
    /\ args = <<>> /\ error = None /\ language = None /\ prompts = 0
    /\ video = NoVideo /\ runs = 0 /\ segments = <<>> /\ gwidth = 0 /\ gi = 0
    /\ font = NoFont /\ outcome = None /\ stop_event = FALSE /\ tpc = "idle"
    /\ idx = 0 /\ doneLines = 0 /\ log = <<>>
    /\ before = [present |-> FALSE, lines |-> <<>>, outputs |-> {}]

ProgIdle ==
    /\ Fresh /\ argv = NoArgv /\ pc = "idle" /\ deco = NoDeco
    /\ fs = {} /\ tempDir = FALSE /\ tempFiles = {} /\ subsFile = <<>>

InitTime ==
    /\ time \in TimeInputs /\ srt = <<>> /\ returned = FALSE
    /\ ScriptIdle /\ WrapIdle /\ UniqueIdle /\ ProgIdle

ConvertTime ==
    /\ ~returned
    /\ srt' = convert_time_to_srt_format(time)
    /\ returned' = TRUE
    /\ UNCHANGED <<time, text, script, wtext, width, wrapped, upath, ufs, unique>>
    /\ UNCHANGED progVars

InitScript ==
    /\ text \in Strings /\ script = None /\ returned = FALSE
    /\ TimeIdle /\ WrapIdle /\ UniqueIdle /\ ProgIdle

DetectScript ==
    /\ ~returned
    /\ script' = detect_script(text)
    /\ returned' = TRUE
    /\ UNCHANGED <<time, srt, text, wtext, width, wrapped, upath, ufs, unique>>
    /\ UNCHANGED progVars

InitWrap ==
    /\ wtext \in WrapTexts /\ width \in Widths /\ wrapped = <<>>
    /\ returned = FALSE
    /\ TimeIdle /\ ScriptIdle /\ UniqueIdle /\ ProgIdle

WrapText ==
    /\ ~returned
    /\ wrapped' = textwrap_fill(wtext, width)
    /\ returned' = TRUE
    /\ UNCHANGED <<time, srt, text, script, wtext, width, upath, ufs, unique>>
    /\ UNCHANGED progVars

InitUnique ==
    /\ ufs \in SUBSET UniquePaths /\ upath \in {<<>>, <<1>>} /\ unique = <<>>
    /\ returned = FALSE
    /\ TimeIdle /\ ScriptIdle /\ WrapIdle /\ ProgIdle

GetUniqueFilename ==
    /\ ~returned
    /\ unique' = get_unique_filename(upath, ufs)
    /\ returned' = TRUE
    /\ UNCHANGED <<time, srt, text, script, wtext, width, wrapped, upath, ufs>>
    /\ UNCHANGED progVars

SpecTime == InitTime /\ [][ConvertTime]_vars
SpecScript == InitScript /\ [][DetectScript]_vars
SpecWrap == InitWrap /\ [][WrapText]_vars
SpecUnique == InitUnique /\ [][GetUniqueFilename]_vars

(***************************************************************************)
(* project.py: get_args and is_valid_language                              *)
(***************************************************************************)
EndsWithMp4(path) == path.ext = ".mp4"

\* The outcome of get_args on the command line a: an exception or a tuple.
get_args_NoExtMutant(a) ==
    IF ~a.exists THEN [raise |-> "FileNotFoundError", ret |-> <<>>]
    ELSE IF a.input = a.output THEN [raise |-> "FileExistsError", ret |-> <<>>]
    ELSE IF a.subs \notin {None, ""}
        THEN [raise |-> None, ret |-> <<a.input, a.output, a.subs>>]
    ELSE [raise |-> None, ret |-> <<a.input, a.output>>]

get_args(a) ==
    IF ~a.exists THEN [raise |-> "FileNotFoundError", ret |-> <<>>]
    ELSE IF a.input = a.output THEN [raise |-> "FileExistsError", ret |-> <<>>]
    ELSE IF ~EndsWithMp4(a.input) \/ ~EndsWithMp4(a.output)
        THEN [raise |-> "ValueError", ret |-> <<>>]
    ELSE IF a.subs \notin {None, ""}
        THEN [raise |-> None, ret |-> <<a.input, a.output, a.subs>>]
    ELSE [raise |-> None, ret |-> <<a.input, a.output>>]

\* A path is its directory ("." the working directory, "temp" the directory
\* TEMP_PATH names), the stem of its file name and the extension.
InputPaths == { [dir |-> ".", stem |-> "in", ext |-> e] : e \in {".mp4", ".wav"} }
OutputPaths ==
    InputPaths
        \cup { [dir |-> ".", stem |-> "out", ext |-> e] : e \in {".mp4", ".mp3"} }
        \cup { [dir |-> "temp", stem |-> "out", ext |-> ".mp4"] }

\* --subs absent (None), given empty, a model name, another string
SubsArgs == {None, "", "small", "bogus"}

SUBTITLE_MODELS == {"tiny", "small", "medium", "large", "turbo"}

\* GoogleTranslator().get_supported_languages(as_dict=True): name -> code
SupportedLanguages ==
    [n \in {"english", "japanese"} |->
        CASE n = "english" -> "en" [] n = "japanese" -> "ja"]

get_supported_languages == SupportedLanguages

LanguageValues == { get_supported_languages[n] : n \in DOMAIN get_supported_languages }

is_valid_language_NamesMutant(code) == code \in DOMAIN get_supported_languages

is_valid_language(code) == code \in LanguageValues

\* What the user may type at the prompt, and what .strip() makes of it.
Typed == {"en", " ja ", "EN", "english", "English", "", "xx"}

StripTyped(str) == IF str = " ja " THEN "ja" ELSE str

ScriptOf(lang) ==
    CASE lang = "en" -> "Latin" [] lang = "ja" -> "Asian"

\* translate_text: the letters of every word become letters of the target
\* language's script; digits and punctuation stay.
translate_text(lang, t) ==
    [i \in 1 .. Len(t) |->
        IF t[i].cls \in Shared THEN t[i] ELSE [t[i] EXCEPT !.cls = ScriptOf(lang)]]

(***************************************************************************)
(* Segments and the subtitle file                                          *)
(***************************************************************************)
Word(c, n) == [cls |-> c, len |-> n, hy |-> 0, gap |-> 1]

Hello == << Word("Latin", 5), Word("Latin", 5) >>
Kanji == << Word("Asian", 31) >>
NumKanji == << Word("Common", 3), Word("Asian", 22) >>
Salam == << Word("Arabic", 4), Word("Arabic", 6) >>
Mixed == << Word("Latin", 5), Word("Asian", 5) >>
Dots == << Word("Common", 3) >>

FirstTexts == {Hello, Kanji, NumKanji, Salam, Mixed, Dots, <<>>}
LaterTexts == {Kanji, <<>>}

\* Segment k of a transcription whose ids start at base.
Segment(base, k, t) ==
    [id |-> base + k - 1, start |-> (k - 1) * 8002, end |-> (k - 1) * 8002 + 7998,
     text |-> t]

\* Transcriptions of up to MaxSegments segments with ids from 0, and the
\* all-Hello ones with ids from 3 (a transcription need not number from 0).
SegmentLists ==
    {<<>>} \cup
    UNION { { [k \in 1 .. n |-> Segment(0, k, ts[k])] :
                ts \in { f \in [1 .. n -> FirstTexts] :
                            \A k \in 2 .. n : f[k] \in LaterTexts } }
            \cup { [k \in 1 .. n |-> Segment(3, k, Hello)] } : n \in 1 .. MaxSegments }

\* The characters of a text as script classes, blanks between the words.
RECURSIVE ClassString(_)
ClassString(t) ==
    IF t = <<>> THEN <<>>
    ELSE << "Space", Head(t).cls >>
            \o (IF Head(t).hy # 0 THEN <<"Common">> ELSE <<>>)
            \o ClassString(Tail(t))

\* The characters of a wrapped line of the text t.
RECURSIVE LineString(_, _)
LineString(line, t) ==
    IF line = <<>> THEN <<>>
    ELSE LET c == Head(line)
         IN  (IF c.len = 0 THEN <<>>
              ELSE IF c.w = 0 THEN <<"Space">>
              ELSE IF t[c.w].hy # 0 /\ c.off + c.len = t[c.w].hy
                  THEN IF c.len = 1 THEN <<"Common">> ELSE <<t[c.w].cls, "Common">>
              ELSE <<t[c.w].cls>>)
             \o LineString(Tail(line), t)

\* f"{formatted_text}\n\n": the lines of the wrapped text, then an empty line;
\* an empty formatted_text is one empty line.
TextLines(lines, t) ==
    IF lines = <<>> THEN << [k |-> "text", s |-> <<>>] >>
    ELSE [i \in 1 .. Len(lines) |-> [k |-> "text", s |-> LineString(lines[i], t)]]

EmptyLine == [k |-> "text", s |-> <<>>]

\* The three writes of one pass of the for loop of generate_srt.
EntryLinesIdMutant(segment, t, w) ==
    << [k |-> "index", s |-> Digits(segment.id)],
       [k |-> "timing", s |-> convert_time_to_srt_format(segment.start)
                              \o <<" --> ">>
                              \o convert_time_to_srt_format(segment.end)] >>
        \o TextLines(textwrap_fill(t, w), t) \o << EmptyLine >>

EntryLines(segment, t, w) ==
    << [k |-> "index", s |-> Digits(segment.id + 1)],
       [k |-> "timing", s |-> convert_time_to_srt_format(segment.start)
                              \o <<" --> ">>
                              \o convert_time_to_srt_format(segment.end)] >>
        \o TextLines(textwrap_fill(t, w), t) \o << EmptyLine >>

FONTS == [c \in {"latin-cyrillic", "asian", "arabic"} |->
            CASE c = "latin-cyrillic" -> "./fonts/Roboto-Regular.ttf"
              [] c = "asian" -> "./fonts/NotoSansSC.ttf"
              [] c = "arabic" -> "./fonts/NotoSansArabic.ttf"]

\* A subtitle file left by an earlier invocation of the program.
StaleSubs == EntryLines(Segment(0, 1, Hello), Hello, 65)

(***************************************************************************)
(* helper.py: LoadingBar.simple_loading and LoadingBar._animate            *)
(***************************************************************************)
\* get_style: the number of frames, 0 when it raises ValueError
get_style(style_name, length) ==
    IF length > 20 \/ length <= 0 THEN 0
    ELSE CASE style_name = "simple" -> 4
           [] style_name \in {"hash", "blocks"} -> length
           [] style_name = "dots" -> 6
           [] OTHER -> 0

\* The decorators of editor.py (lines 26, 64, 193).
Decorated(name) ==
    CASE name = "__init__" -> [name |-> name, style_name |-> "simple", length |-> 10]
      [] name = "generate_srt" -> [name |-> name, style_name |-> "hash", length |-> 20]
      [] name = "apply_subtitles" -> [name |-> name, style_name |-> "dots", length |-> 15]

BodyStart(name) ==
    CASE name = "__init__" -> "init_fields"
      [] name = "generate_srt" -> "gs_segments"
      [] name = "apply_subtitles" -> "as_style"
      [] OTHER -> "f_body"

\* Where control goes when the decorated function raises e.
Handler(e) == IF e = "KeyboardInterrupt" THEN "except_set" ELSE "finally_set"

Terminated == tpc \in {"done", "error"}

progRest == <<argv, args, error, language, prompts, video, runs, fs, tempDir,
              tempFiles, subsFile, segments, gwidth, gi, font, before>>

\* wrap, lines 73-85: the event, get_style, the thread is started
WrapEnter ==
    /\ pc = "wrap"
    /\ IF get_style(deco.style_name, deco.length) = 0
       THEN /\ error' = "ValueError" /\ pc' = "crashed"
            /\ UNCHANGED <<stop_event, tpc, idx, doneLines, outcome, log>>
       ELSE /\ stop_event' = FALSE /\ tpc' = "clean" /\ idx' = 0 /\ doneLines' = 0
            /\ outcome' = None
            /\ pc' = BodyStart(deco.name)
            /\ log' = Append(log, <<"start", deco.name>>)
            /\ error' = error
    /\ UNCHANGED <<argv, args, language, prompts, video, runs, fs, tempDir,
                   tempFiles, subsFile, segments, gwidth, gi, font, before, deco>>
    /\ UNCHANGED pureVars

\* except KeyboardInterrupt: stop_event.set()
ExceptSet ==
    /\ pc = "except_set"
    /\ stop_event' = TRUE /\ pc' = "except_join"
    /\ UNCHANGED <<progRest, deco, outcome, tpc, idx, doneLines, log>>
    /\ UNCHANGED pureVars

\* except KeyboardInterrupt: t.join(); raise
ExceptJoin ==
    /\ pc = "except_join" /\ Terminated
    /\ pc' = "finally_set"
    /\ UNCHANGED <<progRest, deco, outcome, stop_event, tpc, idx, doneLines, log>>
    /\ UNCHANGED pureVars

\* finally: stop_event.set()
FinallySet ==
    /\ pc = "finally_set"
    /\ stop_event' = TRUE /\ pc' = "finally_join"
    /\ UNCHANGED <<progRest, deco, outcome, tpc, idx, doneLines, log>>
    /\ UNCHANGED pureVars

FinallyJoinNoWaitMutant ==
    /\ pc = "finally_join"
    /\ pc' = "wrap_exit"
    /\ UNCHANGED <<progRest, deco, outcome, stop_event, tpc, idx, doneLines, log>>
    /\ UNCHANGED pureVars

\* finally: t.join()
FinallyJoin ==
    /\ pc = "finally_join" /\ Terminated
    /\ pc' = "wrap_exit"
    /\ UNCHANGED <<progRest, deco, outcome, stop_event, tpc, idx, doneLines, log>>
    /\ UNCHANGED pureVars

\* Mutant: the wrapper swallows the error and returns None.
WrapExitSwallowMutant ==
    /\ pc = "wrap_exit"
    /\ log' = Append(log, <<IF outcome = "ok" THEN "ok" ELSE "fail", deco.name>>)
    /\ CASE deco.name = "__init__" ->
                /\ deco' = Decorated("generate_srt") /\ pc' = "wrap"
         [] deco.name = "generate_srt" ->
                /\ deco' = Decorated("apply_subtitles") /\ pc' = "wrap"
         [] deco.name = "apply_subtitles" -> /\ deco' = deco /\ pc' = "clean_temp"
         [] OTHER -> /\ deco' = deco /\ pc' = "returned"
    /\ outcome' = None /\ stop_event' = FALSE /\ tpc' = "idle" /\ idx' = 0
    /\ doneLines' = 0
    /\ UNCHANGED progRest
    /\ UNCHANGED pureVars

\* return result (line 97), or the error leaves wrap and, uncaught by
\* start_menu and main, ends the program.  After __init__ the caller goes on
\* to video.run(): generate_srt, apply_subtitles, clean_temp (lines 370-377).
WrapExit ==
    /\ pc = "wrap_exit"
    /\ log' = Append(log, <<IF outcome = "ok" THEN "ok" ELSE "fail", deco.name>>)
    /\ IF outcome = "ok"
       THEN /\ error' = error
            /\ CASE deco.name = "__init__" ->
                        /\ deco' = Decorated("generate_srt") /\ pc' = "wrap"
                 [] deco.name = "generate_srt" ->
                        /\ deco' = Decorated("apply_subtitles") /\ pc' = "wrap"
                 [] deco.name = "apply_subtitles" ->
                        /\ deco' = deco /\ pc' = "clean_temp"
                 [] OTHER -> /\ deco' = deco /\ pc' = "returned"
       ELSE /\ error' = outcome /\ pc' = "crashed" /\ deco' = deco
    /\ UNCHANGED <<argv, args, language, prompts, video, runs, fs, tempDir,
                   tempFiles, subsFile, segments, gwidth, gi, font, before>>
    /\ outcome' = None /\ stop_event' = FALSE /\ tpc' = "idle" /\ idx' = 0
    /\ doneLines' = 0
    /\ UNCHANGED pureVars

threadRest == <<progRest, deco, outcome, stop_event, pc, log>>

\* _animate, lines 145-149
AnimateStart ==
    /\ tpc = "clean"
    /\ tpc' = "check"
    /\ UNCHANGED <<threadRest, idx, doneLines>>
    /\ UNCHANGED pureVars

\* while not stop_event.is_set()
AnimateCheck ==
    /\ tpc = "check"
    /\ tpc' = IF stop_event THEN "final" ELSE "draw"
    /\ UNCHANGED <<threadRest, idx, doneLines>>
    /\ UNCHANGED pureVars

\* lines 152-157: loading_string is bound, the frame is written, idx += 1
AnimateDraw ==
    /\ tpc = "draw"
    /\ idx' = IF idx < MaxFrames THEN idx + 1 ELSE idx
    /\ tpc' = "check"
    /\ UNCHANGED <<threadRest, doneLines>>
    /\ UNCHANGED pureVars

\* lines 159-161: len(loading_string) raises UnboundLocalError when the loop
\* body never ran; otherwise the line is cleared and "... Done." written
AnimateFinal ==
    /\ tpc = "final"
    /\ IF idx = 0
       THEN /\ tpc' = "error" /\ doneLines' = doneLines
       ELSE /\ tpc' = "done" /\ doneLines' = doneLines + 1
    /\ UNCHANGED <<threadRest, idx>>
    /\ UNCHANGED pureVars

Animate == AnimateStart \/ AnimateCheck \/ AnimateDraw \/ AnimateFinal

(***************************************************************************)
(* project.py: main, start_menu                                            *)
(***************************************************************************)
loaderVars == <<stop_event, tpc, idx, doneLines>>

\* main, line 10: args = get_args()
GetArgs ==
    /\ pc = "get_args"
    /\ LET r == get_args(argv)
       IN  IF r.raise # None
           THEN /\ error' = r.raise /\ pc' = "crashed" /\ args' = args
           ELSE /\ args' = r.ret /\ pc' = "menu" /\ error' = error
    /\ UNCHANGED <<argv, language, prompts, video, runs, fs, tempDir, tempFiles,
                   subsFile, segments, gwidth, gi, font, before, deco, outcome,
                   log, loaderVars>>
    /\ UNCHANGED pureVars

\* The call SubtitleGenerator(...) of lines 80 and 98 enters the decorated
\* __init__.
StartRun(lang) ==
    /\ runs' = runs + 1
    /\ language' = lang
    /\ video' = NoVideo /\ log' = <<>> /\ prompts' = 0
    /\ before' = [present |-> "subs.srt" \in tempFiles, lines |-> subsFile,
                   outputs |-> before.outputs
                       \cup IF runs = 0 THEN {} ELSE {video.output_path}]
    /\ deco' = Decorated("__init__") /\ pc' = "wrap"

\* choice "1"
MenuAddSubtitles ==
    /\ pc = "menu" /\ runs < MaxRuns
    /\ StartRun(None)
    /\ UNCHANGED <<argv, args, error, fs, tempDir, tempFiles, subsFile,
                   segments, gwidth, gi, font, outcome, loaderVars>>
    /\ UNCHANGED pureVars

\* choice "2"
MenuTranslated ==
    /\ pc = "menu" /\ runs < MaxRuns
    /\ pc' = "language" /\ prompts' = 0
    /\ UNCHANGED <<argv, args, error, language, video, runs, fs, tempDir,
                   tempFiles, subsFile, segments, gwidth, gi, font, before, deco,
                   outcome, log, loaderVars>>
    /\ UNCHANGED pureVars

\* lines 87-98: one pass of the prompt loop; a valid code leaves the loop and
\* the generator is constructed with it
EnterLanguage ==
    /\ pc = "language"
    /\ \E str \in Typed :
          LET entered == StripTyped(str)
          IN  IF is_valid_language(entered)
              THEN StartRun(entered)
              ELSE /\ prompts < MaxPrompts
                   /\ language' = entered /\ prompts' = prompts + 1
                   /\ UNCHANGED <<pc, runs, video, log, before, deco>>
    /\ UNCHANGED <<argv, args, error, fs, tempDir, tempFiles, subsFile, segments,
                   gwidth, gi, font, outcome, loaderVars>>
    /\ UNCHANGED pureVars

\* choice "3": sys.exit("Exiting...")
MenuExit ==
    /\ pc = "menu"
    /\ pc' = "exited" /\ error' = "SystemExit"
    /\ UNCHANGED <<argv, args, language, prompts, video, runs, fs, tempDir,
                   tempFiles, subsFile, segments, gwidth, gi, font, before, deco,
                   outcome, log, loaderVars>>
    /\ UNCHANGED pureVars

\* any other choice: input("Unknown choice. Press Enter to continue...")
MenuUnknown ==
    /\ pc = "menu"
    /\ pc' = "unknown"
    /\ UNCHANGED <<argv, args, error, language, prompts, video, runs, fs, tempDir,
                   tempFiles, subsFile, segments, gwidth, gi, font, before, deco,
                   outcome, log, loaderVars>>
    /\ UNCHANGED pureVars

\* Enter is pressed at lines 84, 102 or 109: back to the menu; the locals of
\* the finished run's calls are gone
PressEnter ==
    /\ pc \in {"unknown", "report"}
    /\ pc' = "menu"
    /\ IF pc = "report"
       THEN /\ segments' = <<>> /\ gwidth' = 0 /\ gi' = 0 /\ font' = NoFont
            /\ log' = <<>> /\ deco' = NoDeco
       ELSE UNCHANGED <<segments, gwidth, gi, font, log, deco>>
    /\ UNCHANGED <<argv, args, error, language, prompts, video, runs, fs, tempDir,
                   tempFiles, subsFile, before, outcome, loaderVars>>
    /\ UNCHANGED pureVars

(***************************************************************************)
(* editor.py: the bodies of the decorated methods, and clean_temp          *)
(***************************************************************************)
\* The decorated function ends: success or an exception of its own.
Ends(e) == outcome' = e /\ pc' = IF e = "ok" THEN "finally_set" ELSE Handler(e)

\* __init__, lines 44-53
InitFields ==
    /\ pc = "init_fields"
    /\ video' = [input_path |-> args[1],
                 output_path |-> get_unique_filename(<<>>, fs),
                 subtitle_model |-> IF Len(args) = 3 THEN args[3] ELSE "small",
                 set_language |-> language]
    /\ IF video'.subtitle_model \notin SUBTITLE_MODELS
       THEN /\ Ends("ValueError") /\ tempDir' = tempDir
       ELSE /\ tempDir' = TRUE /\ pc' = "init_audio" /\ outcome' = outcome
    /\ UNCHANGED <<argv, args, error, language, prompts, runs, fs, tempFiles,
                   subsFile, segments, gwidth, gi, font, before, deco, log,
                   loaderVars>>
    /\ UNCHANGED pureVars

\* __init__, lines 55-56: load_model, generate_temp_audio
InitAudio ==
    /\ pc = "init_audio"
    /\ tempFiles' = tempFiles \cup {"temp_audio.mp3"}
    /\ Ends("ok")
    /\ UNCHANGED <<argv, args, error, language, prompts, video, runs, fs, tempDir,
                   subsFile, segments, gwidth, gi, font, before, deco, log,
                   loaderVars>>
    /\ UNCHANGED pureVars

\* The text generate_srt formats for a segment (lines 74-78 and 97-101).
TextOf(segment) ==
    IF video.set_language # None THEN translate_text(video.set_language, segment.text)
    ELSE segment.text

\* lines 80-88: the width of a script category, 0 for the ValueError
WidthOfSwappedMutant(category) ==
    CASE category = "latin-cyrillic" -> 65
      [] category = "asian" -> 30
      [] category = "arabic" -> 22
      [] OTHER -> 0

WidthOf(category) ==
    CASE category = "latin-cyrillic" -> 65
      [] category = "asian" -> 22
      [] category = "arabic" -> 30
      [] OTHER -> 0

\* generate_srt, line 72: get_segments
GsSegments ==
    /\ pc = "gs_segments"
    /\ IF "temp_audio.mp3" \notin tempFiles
       THEN /\ Ends("FileNotFoundError") /\ segments' = segments
       ELSE /\ \E segs \in SegmentLists : segments' = segs
            /\ pc' = "gs_width" /\ outcome' = outcome
    /\ UNCHANGED <<argv, args, error, language, prompts, video, runs, fs, tempDir,
                   tempFiles, subsFile, gwidth, gi, font, before, deco, log,
                   loaderVars>>
    /\ UNCHANGED pureVars

\* generate_srt, lines 74-88
GsWidth ==
    /\ pc = "gs_width"
    /\ IF segments = <<>>
       THEN /\ Ends("IndexError") /\ gwidth' = gwidth
       ELSE LET example_string == TextOf(segments[1])
                w == WidthOf(detect_script(ClassString(example_string)))
            IN  IF w = 0
                THEN /\ Ends("ValueError") /\ gwidth' = gwidth
                ELSE /\ gwidth' = w /\ pc' = "gs_open" /\ outcome' = outcome
    /\ UNCHANGED <<argv, args, error, language, prompts, video, runs, fs, tempDir,
                   tempFiles, subsFile, segments, gi, font, before, deco, log,
                   loaderVars>>
    /\ UNCHANGED pureVars

\* generate_srt, line 90: open(SUBTITLE_PATH, "w") creates or truncates
GsOpen ==
    /\ pc = "gs_open"
    /\ tempFiles' = tempFiles \cup {"subs.srt"} /\ subsFile' = <<>>
    /\ gi' = 1 /\ pc' = "gs_write"
    /\ UNCHANGED <<argv, args, error, language, prompts, video, runs, fs, tempDir,
                   segments, gwidth, font, before, deco, outcome, log, loaderVars>>
    /\ UNCHANGED pureVars

\* generate_srt, lines 91-107: one pass of the for loop, or its end
GsWrite ==
    /\ pc = "gs_write"
    /\ IF gi > Len(segments)
       THEN /\ Ends("ok") /\ UNCHANGED <<subsFile, gi>>
       ELSE /\ subsFile' = subsFile
                    \o EntryLines(segments[gi], TextOf(segments[gi]), gwidth)
            /\ gi' = gi + 1
            /\ UNCHANGED <<pc, outcome>>
    /\ UNCHANGED <<argv, args, error, language, prompts, video, runs, fs, tempDir,
                   tempFiles, segments, gwidth, font, before, deco, log,
                   loaderVars>>
    /\ UNCHANGED pureVars

\* lines 207-221: the render style of a script category
RenderStyle(category) ==
    CASE category = "latin-cyrillic" ->
            [font |-> FONTS[category], font_size |-> 32, stroke_width |-> 3]
      [] category = "asian" ->
            [font |-> FONTS[category], font_size |-> 36, stroke_width |-> 6]
      [] category = "arabic" ->
            [font |-> FONTS[category], font_size |-> 34, stroke_width |-> 4]
      [] OTHER -> NoFont

\* apply_subtitles, lines 203-221: the third line of the file, with its "\n"
AsStyle ==
    /\ pc = "as_style"
    /\ IF "subs.srt" \notin tempFiles
       THEN /\ Ends("FileNotFoundError") /\ font' = font
       ELSE IF Len(subsFile) < 3
       THEN /\ Ends("IndexError") /\ font' = font
       ELSE LET style == RenderStyle(detect_script(Append(subsFile[3].s, "Space")))
            IN  IF style = NoFont
                THEN /\ Ends("ValueError") /\ font' = font
                ELSE /\ font' = style /\ pc' = "as_render" /\ outcome' = outcome
    /\ UNCHANGED <<argv, args, error, language, prompts, video, runs, fs, tempDir,
                   tempFiles, subsFile, segments, gwidth, gi, before, deco, log,
                   loaderVars>>
    /\ UNCHANGED pureVars

\* apply_subtitles, lines 223-247: write_videofile(filename=self.output_path)
AsRender ==
    /\ pc = "as_render"
    /\ fs' = fs \cup {video.output_path}
    /\ Ends("ok")
    /\ UNCHANGED <<argv, args, error, language, prompts, video, runs, tempDir,
                   tempFiles, subsFile, segments, gwidth, gi, font, before, deco,
                   log, loaderVars>>
    /\ UNCHANGED pureVars

\* An external call of the body fails (whisper, moviepy, the translator's
\* network request), translate_text calls sys.exit, or the user presses
\* Ctrl-C; a render that fails may leave a partial output file.
Raise ==
    /\ pc \in {"init_audio", "gs_segments", "gs_width", "gs_write", "as_render",
               "f_body"}
    /\ \E e \in {"Exception", "KeyboardInterrupt", "SystemExit"} :
          /\ e = "SystemExit" =>
                \/ pc = "f_body"
                \/ pc \in {"gs_width", "gs_write"} /\ video.set_language # None
          /\ (e = "Exception" /\ pc \in {"gs_width", "gs_write"}) =>
                video.set_language # None
          /\ Ends(e)
    /\ \E partial \in BOOLEAN :
          fs' = IF partial /\ pc = "as_render" THEN fs \cup {video.output_path}
                ELSE fs
    /\ UNCHANGED <<argv, args, error, language, prompts, video, runs, tempDir,
                   tempFiles, subsFile, segments, gwidth, gi, font, before, deco,
                   log, loaderVars>>
    /\ UNCHANGED pureVars

\* What os.path.isfile, islink and isdir say of an entry of the temp
\* directory: a regular file, a symbolic link, a directory, or none of them.
KindOf(name) ==
    CASE name \in {"subs.srt", "temp_audio.mp3"} -> "file"
      [] name = "latest" -> "link"
      [] name = "old" -> "dir"
      [] OTHER -> "other"

\* The files of fs are those named after --output, in the directory of
\* --output; with --output under ./temp/ they are entries of the temp
\* directory.
OutputInTemp == args # <<>> /\ args[2].dir = "temp"

\* lines 354-361: the entries os.remove and shutil.rmtree take away
Removed(entries) == { n \in entries : KindOf(n) \in {"file", "link", "dir"} }

\* run, lines 373 and 377: SubtitleGenerator.clean_temp(), then lines 82-83
clean_temp ==
    /\ pc = "clean_temp"
    /\ IF ~tempDir
       THEN /\ error' = "FileNotFoundError" /\ pc' = "crashed"
            /\ log' = log \o << <<"start", "clean_temp">>, <<"fail", "clean_temp">> >>
            /\ UNCHANGED <<tempFiles, subsFile, fs>>
       ELSE /\ tempFiles' = tempFiles \ Removed(tempFiles)
            /\ subsFile' = IF "subs.srt" \in tempFiles' THEN subsFile ELSE <<>>
            /\ fs' = IF OutputInTemp THEN {} ELSE fs
            /\ log' = log \o << <<"start", "clean_temp">>, <<"ok", "clean_temp">> >>
            /\ pc' = "report" /\ error' = error
    /\ UNCHANGED <<argv, args, language, prompts, video, runs, tempDir,
                   segments, gwidth, gi, font, before, deco, outcome, loaderVars>>
    /\ UNCHANGED pureVars

\* The wrapped function of a decorated call taken by itself returns.
CallF ==
    /\ pc = "f_body"
    /\ Ends("ok")
    /\ UNCHANGED <<progRest, deco, log, loaderVars>>
    /\ UNCHANGED pureVars

(***************************************************************************)
(* The program, and one decorated call taken by itself                     *)
(***************************************************************************)
Init ==
    /\ PureIdle /\ Fresh
    /\ argv \in [input : InputPaths, output : OutputPaths, subs : SubsArgs,
                 exists : BOOLEAN]
    /\ pc = "get_args" /\ deco = NoDeco
    /\ fs \in {{}, {<<>>}, {<<>>, <<1>>}}
    /\ \/ tempDir = FALSE /\ tempFiles = {} /\ subsFile = <<>>
       \/ /\ tempDir = TRUE /\ tempFiles = {"subs.srt", "old", "latest"}
          /\ subsFile = StaleSubs
    \* the command line with --output under ./temp/ is the plain valid one,
    \* no file of that name there yet
    /\ argv.output.dir = "temp" =>
          argv.exists /\ argv.subs = None /\ argv.input.ext = ".mp4" /\ fs = {}

Next ==
    \/ GetArgs \/ MenuAddSubtitles \/ MenuTranslated \/ EnterLanguage
    \/ MenuExit \/ MenuUnknown \/ PressEnter
    \/ WrapEnter \/ ExceptSet \/ ExceptJoin \/ FinallySet \/ FinallyJoin \/ WrapExit
    \/ InitFields \/ InitAudio \/ GsSegments \/ GsWidth \/ GsOpen \/ GsWrite
    \/ AsStyle \/ AsRender \/ Raise \/ clean_temp
    \/ AnimateStart \/ AnimateCheck \/ AnimateDraw \/ AnimateFinal

Spec == Init /\ [][Next]_vars

InitLoading ==
    /\ PureIdle /\ Fresh
    /\ argv = NoArgv /\ fs = {} /\ tempDir = FALSE /\ tempFiles = {} /\ subsFile = <<>>
    /\ pc = "wrap"
    /\ deco \in [name : {"f"},
                 style_name : {"simple", "hash", "blocks", "dots", "bogus"},
                 length : {0, 1, 10, 20, 21}]

NextLoading ==
    \/ WrapEnter \/ CallF \/ Raise
    \/ ExceptSet \/ ExceptJoin \/ FinallySet \/ FinallyJoin \/ WrapExit
    \/ AnimateStart \/ AnimateCheck \/ AnimateDraw \/ AnimateFinal

SpecLoading == InitLoading /\ [][NextLoading]_vars

\* The interpreter schedules both threads: neither waits forever while it
\* can take a step.  The wrapped function itself need not return.
FairLoading ==
    /\ SpecLoading
    /\ WF_vars(Animate)
    /\ WF_vars(ExceptSet \/ ExceptJoin \/ FinallySet \/ FinallyJoin \/ WrapExit)

(***************************************************************************)
(* C1: the decorator stops and joins the indicator thread                  *)
(***************************************************************************)
\* C1: whenever a decorated call whose indicator thread was started is about
\* to return its result or to let an error of the wrapped function
\* propagate, the stop flag is set and the thread has terminated; and under
\* fair scheduling every join completes.
C1_JoinedBeforeExit ==
    /\ [](pc = "wrap_exit" => (stop_event /\ Terminated))
    /\ (pc \in {"except_join", "finally_join"}) ~> (pc = "wrap_exit")

\* a KeyboardInterrupt of the wrapped function is about to propagate
C1_Witness ==
    pc = "wrap_exit" /\ outcome = "KeyboardInterrupt" /\ stop_event /\ tpc = "done"

(***************************************************************************)
(* C2: the order of the steps of a run                                     *)
(***************************************************************************)
StepOrder == << "__init__", "generate_srt", "apply_subtitles", "clean_temp" >>

Place(name) == CHOOSE i \in 1 .. 4 : StepOrder[i] = name

Logged(kind, name) == \E i \in 1 .. Len(log) : log[i] = <<kind, name>>

IndexLines(file) == SelectSeq(file, LAMBDA l : l.k = "index")

\* C2: a step of a run starts only after every earlier step of the run
\* completed without error, each step starts at most once, nothing runs
\* after a failed step, apply_subtitles reads only a subtitle file that
\* generate_srt of the same run finished writing, and clean_temp runs only
\* after a successful render.
C2_RunOrder ==
    /\ \A i \in 1 .. Len(log) :
          log[i][1] = "start" =>
              /\ \A j \in 1 .. (Place(log[i][2]) - 1) :
                    \E m \in 1 .. (i - 1) : log[m] = <<"ok", StepOrder[j]>>
              /\ \A m \in 1 .. (i - 1) : log[m] # log[i]
    /\ \A i \in 1 .. Len(log) :
          log[i][1] = "fail" => (i = Len(log) /\ pc = "crashed")
    /\ pc \in {"as_style", "as_render"} =>
          /\ Logged("ok", "generate_srt")
          /\ Len(IndexLines(subsFile)) = Len(segments)
    /\ pc \in {"clean_temp", "report"} => Logged("ok", "apply_subtitles")

\* generate_srt failed after a successful constructor: the run has ended
C2_Witness ==
    pc = "crashed" /\ log = << <<"start", "__init__">>, <<"ok", "__init__">>,
                               <<"start", "generate_srt">>,
                               <<"fail", "generate_srt">> >>

(***************************************************************************)
(* C3: get_unique_filename                                                 *)
(***************************************************************************)
\* C3: get_unique_filename(path) is path itself when path does not exist;
\* otherwise it is path with " (n)" appended to the name for the smallest
\* n >= 1 whose path does not exist; the call ends after at most as many
\* probes as there are existing files plus one, and the result never exists.
C3_UniqueFilename ==
    returned =>
        /\ unique \notin ufs
        /\ upath \notin ufs => unique = upath
        /\ upath \in ufs =>
              /\ Len(unique) = Len(upath) + 1
              /\ SubSeq(unique, 1, Len(upath)) = upath
              /\ Last(unique) >= 1
              /\ Last(unique) <= Cardinality(ufs)
              /\ \A n \in 1 .. (Last(unique) - 1) : NewPath(upath, n) \in ufs

\* out.mp4 and "out (1).mp4" exist: the result is "out (2).mp4"
C3_Witness ==
    returned /\ upath = <<>> /\ {<<>>, <<1>>} \subseteq ufs /\ unique = <<2>>

(***************************************************************************)
(* C4: convert_time_to_srt_format                                          *)
(***************************************************************************)
\* M = t * 1000 rounded to the nearest integer, ties away from zero
HalfUp(tq) == (2 * tq + Resolution) \div (2 * Resolution)

Rendering(M) ==
    SrtString(M \div 3600000, (M \div 60000) % 60, (M \div 1000) % 60, M % 1000)

\* C4: for every non-negative time t, convert_time_to_srt_format(t) is the
\* HH:MM:SS,mmm rendering of t * 1000 rounded to the nearest millisecond
\* with ties rounded up.
C4_HalfUpRendering == returned => srt = Rendering(HalfUp(time))

(***************************************************************************)
(* C5: detect_script                                                       *)
(***************************************************************************)
Has(S, t) == \E i \in 1 .. Len(t) : t[i] \in S
Only(S, t) == \A i \in 1 .. Len(t) : t[i] \in S \cup Shared

Categories == << {"Arabic"}, {"Asian"}, {"Latin", "Cyrillic"} >>

\* C5: detect_script returns 'arabic' / 'asian' / 'latin-cyrillic' iff the
\* stripped string has at least one character of that category and otherwise
\* only Common or Inherited characters, and None for the empty or
\* whitespace-only string, a punctuation-only string, a string mixing two
\* categories and a string with a character of an uncovered script.
C5_Classifier ==
    returned =>
        LET t == Strip(text)
        IN  /\ script = "arabic" <=> (Has({"Arabic"}, t) /\ Only({"Arabic"}, t))
            /\ script = "asian" <=> (Has({"Asian"}, t) /\ Only({"Asian"}, t))
            /\ script = "latin-cyrillic" <=>
                  (Has({"Latin", "Cyrillic"}, t) /\ Only({"Latin", "Cyrillic"}, t))
            /\ script \in {"arabic", "asian", "latin-cyrillic", None}
            /\ (\A i \in 1 .. Len(text) : text[i] = "Space") => script = None
            /\ Only({}, t) => script = None
            /\ (\E i, j \in 1 .. 3 :
                    i # j /\ Has(Categories[i], t) /\ Has(Categories[j], t))
                  => script = None
            /\ Has({"Other"}, t) => script = None

\* " ,l": a Latin letter after blanks and punctuation is latin-cyrillic
C5_Witness ==
    returned /\ text = <<"Space", "Common", "Latin">> /\ script = "latin-cyrillic"

(***************************************************************************)
(* C6: the word wrap of generate_srt                                       *)
(***************************************************************************)
WordsOn(line) == { line[i].w : i \in { j \in 1 .. Len(line) :
                                          line[j].w # 0 /\ line[j].len > 0 } }

\* No word has characters on two lines: every line break stands for a gap.
BreaksOnlyAtWhitespace(lines) ==
    \A i, j \in 1 .. Len(lines) : i # j => WordsOn(lines[i]) \cap WordsOn(lines[j]) = {}

IsSingleWord(line, t) ==
    Len(line) = 1 /\ line[1].w # 0 /\ line[1].off = 0
        /\ line[1].len = t[line[1].w].len

\* ' '.join(s.split()) on a sequence of items: empty items vanish, runs of
\* blanks become one blank, leading blanks go, adjacent pieces of one word
\* that continue each other are one piece.
RECURSIVE Norm(_, _)
Norm(items, acc) ==
    IF items = <<>> THEN acc
    ELSE LET c == Head(items)
         IN  IF c.len = 0 THEN Norm(Tail(items), acc)
             ELSE IF c.w = 0
                 THEN IF acc = <<>> \/ Last(acc).w = 0 THEN Norm(Tail(items), acc)
                      ELSE Norm(Tail(items), Append(acc, Blank(1)))
             ELSE IF acc # <<>> /\ Last(acc).w = c.w
                        /\ Last(acc).off + Last(acc).len = c.off
                 THEN Norm(Tail(items),
                           [acc EXCEPT ![Len(acc)].len = @ + c.len])
             ELSE Norm(Tail(items), Append(acc, c))

Normalized(items) == DropTrailing(Norm(items, <<>>))

RECURSIVE JoinLines(_)
JoinLines(lines) ==
    IF lines = <<>> THEN <<>>
    ELSE IF Len(lines) = 1 THEN lines[1]
    ELSE lines[1] \o << Blank(1) >> \o JoinLines(Tail(lines))

Reconstructs(lines, t) == Normalized(JoinLines(lines)) = Normalized(Chunks(t))

HasLongWord(t, w) == \E i \in 1 .. Len(t) : t[i].len > w
HasHyphen(t) == \E i \in 1 .. Len(t) : t[i].hy # 0

\* C6 as claimed: the wrap breaks lines only at whitespace, every line is at
\* most the width long unless it is a single word, and the lines joined with
\* single spaces, whitespace-normalized, are the normalized trimmed text;
\* also with a word longer than the width.
C6_WordWrap ==
    returned =>
        /\ BreaksOnlyAtWhitespace(wrapped)
        /\ \A i \in 1 .. Len(wrapped) :
              SumLen(wrapped[i]) <= width \/ IsSingleWord(wrapped[i], wtext)
        /\ Reconstructs(wrapped, wtext)

\* C6 amended: every line is at most the width long; when the text has no
\* word longer than the width and no hyphenated word, lines break only at
\* whitespace and the joined, normalized lines are the normalized trimmed
\* text; a word longer than the width is split over several lines.
C6_WordWrapAmended ==
    returned =>
        /\ \A i \in 1 .. Len(wrapped) : SumLen(wrapped[i]) <= width
        /\ (~HasLongWord(wtext, width) /\ ~HasHyphen(wtext)) =>
              (BreaksOnlyAtWhitespace(wrapped) /\ Reconstructs(wrapped, wtext))
        /\ \A i \in 1 .. Len(wtext) : wtext[i].len > width =>
              \E j, k \in 1 .. Len(wrapped) :
                    j # k /\ i \in WordsOn(wrapped[j]) /\ i \in WordsOn(wrapped[k])

\* three words without hyphen, none longer than the width, wrapped to 2+ lines
C6_Witness ==
    /\ returned /\ Len(wtext) = 3 /\ Len(wrapped) >= 2
    /\ ~HasLongWord(wtext, width) /\ ~HasHyphen(wtext)
    /\ Reconstructs(wrapped, wtext)

(***************************************************************************)
(* C7, C8: the subtitle file generate_srt writes                           *)
(***************************************************************************)
\* generate_srt has returned normally and the file has not been cleaned up
GenerateSrtSucceeded ==
    /\ pc # "report"
    /\ \/ Logged("ok", "generate_srt")
       \/ pc = "wrap_exit" /\ deco.name = "generate_srt" /\ outcome = "ok"

\* '{index}\n{start} --> {end}\n{text}\n\n' for a segment wrapped at width w
Block(segment, w) ==
    << [k |-> "index", s |-> Digits(segment.id + 1)],
       [k |-> "timing", s |-> convert_time_to_srt_format(segment.start)
                              \o <<" --> ">>
                              \o convert_time_to_srt_format(segment.end)] >>
        \o (LET lines == textwrap_fill(TextOf(segment), w)
            IN  IF lines = <<>> THEN << [k |-> "text", s |-> <<>>] >>
                ELSE [i \in 1 .. Len(lines) |->
                        [k |-> "text", s |-> LineString(lines[i], TextOf(segment))]])
        \o << [k |-> "text", s |-> <<>>] >>

Blocks(n, w) == Flatten([k \in 1 .. n |-> Block(segments[k], w)])

\* C7: when generate_srt succeeds on n segments the subtitle file holds
\* exactly n entries in the order of the segments, the k-th built from the
\* k-th segment: index = id + 1, the converted start and end, the wrapped
\* text, then an empty line; with ids 0..n-1 the indices are 1..n.
C7_FileEntries ==
    GenerateSrtSucceeded =>
        /\ Len(IndexLines(subsFile)) = Len(segments)
        /\ subsFile = Blocks(Len(segments), gwidth)
        /\ (\A k \in 1 .. Len(segments) : segments[k].id = k - 1) =>
              \A k \in 1 .. Len(segments) : IndexLines(subsFile)[k].s = Digits(k)

\* two segments with ids 3 and 4 were written as entries 4 and 5
C7_Witness ==
    /\ GenerateSrtSucceeded /\ Len(segments) = 2 /\ segments[1].id = 3
    /\ IndexLines(subsFile)[2].s = <<5>>

\* The script category of the first segment's text, translated when a target
\* language is set.
ExampleCategory == detect_script(ClassString(TextOf(segments[1])))

\* C8: the wrap width is chosen once from the script category of the first
\* segment's (translated) text, latin-cyrillic 65, asian 22, arabic 30, and
\* every segment is wrapped at it; when the category is undetermined
\* generate_srt raises before the file is opened, leaving the subtitle file
\* as it was when the run started.
C8_WidthChoice ==
    /\ (pc \in {"gs_open", "gs_write"} \/ GenerateSrtSucceeded) =>
          /\ segments # <<>>
          /\ ExampleCategory \in {"latin-cyrillic", "asian", "arabic"}
          /\ gwidth = (CASE ExampleCategory = "latin-cyrillic" -> 65
                         [] ExampleCategory = "asian" -> 22
                         [] ExampleCategory = "arabic" -> 30)
    /\ pc = "gs_write" => subsFile = Blocks(gi - 1, gwidth)
    /\ (deco.name = "generate_srt" /\ outcome = "ValueError") =>
          /\ ExampleCategory = None
          /\ subsFile = before.lines
          /\ ("subs.srt" \in tempFiles) = before.present

\* the first text is undetermined and an older subtitle file is untouched
C8_Witness ==
    /\ pc = "wrap_exit" /\ deco.name = "generate_srt" /\ outcome = "ValueError"
    /\ before.present /\ subsFile = StaleSubs

(***************************************************************************)
(* C9: get_args                                                            *)
(***************************************************************************)
\* The state after get_args raised e: nothing has been constructed or run.
RaisedBeforeProcessing(e) ==
    /\ pc = "crashed" /\ error = e /\ args = <<>>
    /\ runs = 0 /\ video = NoVideo /\ log = <<>> /\ tpc = "idle"

ArgsOutcome(subsGiven) ==
    IF ~argv.exists THEN RaisedBeforeProcessing("FileNotFoundError")
    ELSE IF argv.input = argv.output THEN RaisedBeforeProcessing("FileExistsError")
    ELSE IF argv.input.ext # ".mp4" \/ argv.output.ext # ".mp4"
        THEN RaisedBeforeProcessing("ValueError")
    ELSE IF subsGiven THEN args = <<argv.input, argv.output, argv.subs>>
    ELSE args = <<argv.input, argv.output>>

C10_ValidLanguage ==
    /\ [](video.set_language # None =>
            /\ video.set_language \in LanguageValues
            /\ video.set_language \notin DOMAIN SupportedLanguages)
    /\ [][pc = "language" =>
            \/ /\ language' \in LanguageValues
               /\ pc' = "wrap" /\ runs' = runs + 1
            \/ /\ language' \notin LanguageValues
               /\ pc' = "language" /\ prompts' = prompts + 1
               /\ runs' = runs /\ video' = video]_vars

\* " ja " was typed after two rejected strings and the generator is built
C10_Witness ==
    pc = "init_audio" /\ video.set_language = "ja" /\ language = "ja"


(***************************************************************************)
(* C11: the temp directory after a run                                     *)
(***************************************************************************)
\* The files named after --output that are not in the temp directory.
OutsideTemp == IF OutputInTemp THEN {} ELSE fs

\* C11: when a run completes successfully the temp directory still exists
\* and has no entries, clean_temp has deleted nothing outside it, and the
\* output video the run wrote is in place.
C11_CleanTemp ==
    [][(pc = "clean_temp" /\ pc' = "report") =>
            /\ tempDir' /\ tempFiles' = {}
            /\ OutsideTemp' = OutsideTemp
            /\ video'.output_path \in fs']_vars

(***************************************************************************)
(* C12: runs with the same --output                                        *)
(***************************************************************************)
\* C12: the path a run renders to did not exist when its generator was
\* constructed and is the output path of no earlier completed run.
C12_FreshOutput ==
    /\ pc = "init_audio" => video.output_path \notin fs
    /\ pc \in {"init_audio", "gs_segments", "gs_width", "gs_open", "gs_write",
               "as_style", "as_render"} =>
            video.output_path \notin before.outputs

(***************************************************************************)
(* C13: the category of the first wrapped line                             *)
(***************************************************************************)
\* C13: after generate_srt has succeeded, apply_subtitles finds in the third
\* line of the subtitle file the script category generate_srt derived from
\* the whole first segment text, so the style selection does not fail.
C13_SameCategory ==
    pc = "as_style" =>
        /\ "subs.srt" \in tempFiles /\ Len(subsFile) >= 3
        /\ detect_script(Append(subsFile[3].s, "Space")) = ExampleCategory
        /\ RenderStyle(ExampleCategory) # NoFont

(***************************************************************************)
(* C14: the end of the indicator thread                                    *)
(***************************************************************************)
\* C14: in every interleaving the indicator thread ends normally, having
\* written its final "... Done." line exactly once, also when the stop flag
\* is set before the first frame; it draws no frame after the final line.
C14_IndicatorEndsNormally ==
    /\ [](/\ tpc # "error"
          /\ tpc = "done" => doneLines = 1
          /\ pc = "wrap_exit" => tpc = "done")
    /\ [][Terminated => ~(tpc' = "draw" \/ idx' > idx)]_vars

=============================================================================
